---- MODULE Spec2Model ----
(***************************************************************************)
(* Model of file_organizer.cpp: the metadata-driven classification and     *)
(* collision-safe relocation engine.                                       *)
(*                                                                         *)
(* Text is a sequence of one-character strings, a path is a sequence of    *)
(* path elements relative to src_directory, a timestamp is a whole number  *)
(* of local-calendar days since 1970-01-01 and a file's content is a       *)
(* sequence of bytes (its size is the length of that sequence).            *)
(***************************************************************************)
EXTENDS Integers, Sequences, FiniteSets, TLC

(***************************************************************************)
(* Bounds of the exploration.                                              *)
(***************************************************************************)
MaxFiles == 3
MaxRuns == 2
MaxFaults == 1
MaxSize == 4
MaxThreshold == 4

(***************************************************************************)
(* Text helpers.                                                           *)
(***************************************************************************)
Slash == "/"
Dot == "."

Digit(d) ==
  CASE d = 0 -> "0" [] d = 1 -> "1" [] d = 2 -> "2" [] d = 3 -> "3"
    [] d = 4 -> "4" [] d = 5 -> "5" [] d = 6 -> "6" [] d = 7 -> "7"
    [] d = 8 -> "8" [] d = 9 -> "9"

\* std::to_string(int) for a non-negative counter
RECURSIVE to_string(_)
to_string(n) ==
  IF n < 10 THEN <<Digit(n)>> ELSE to_string(n \div 10) \o <<Digit(n % 10)>>

\* a numeric field of std::put_time, zero-padded to width w
put_field(n, w) ==
  LET s == to_string(n)
  IN IF Len(s) >= w THEN s ELSE [k \in 1..(w - Len(s)) |-> "0"] \o s

\* the elements of a path given as text: split at separators, empty
\* elements between or after separators name nothing
RECURSIVE path_elements(_)
path_elements(s) ==
  IF s = <<>> THEN <<>>
  ELSE LET i == IF \E k \in 1..Len(s) : s[k] = Slash
                THEN CHOOSE k \in 1..Len(s) :
                       s[k] = Slash /\ \A j \in 1..(k - 1) : s[j] # Slash
                ELSE 0
       IN IF i = 0 THEN <<s>>
          ELSE IF i = 1 THEN path_elements(SubSeq(s, 2, Len(s)))
          ELSE <<SubSeq(s, 1, i - 1)>> \o path_elements(SubSeq(s, i + 1, Len(s)))

\* fs::path operator/ on a path held as elements and a relative text
path_join(p, s) == p \o path_elements(s)

parent_path(p) == SubSeq(p, 1, Len(p) - 1)
filename(p) == p[Len(p)]

\* position of the extension's dot in a filename, 0 when it has none
\* (a dot that starts the filename does not begin an extension)
extension_pos(f) ==
  IF Len(f) = 0 THEN 0
  ELSE IF Len(f) <= 2 /\ f[1] = Dot THEN 0
  ELSE LET dots == {k \in 1..Len(f) : f[k] = Dot}
       IN IF dots = {} THEN 0
          ELSE LET pos == CHOOSE k \in dots : \A j \in dots : j <= k
               IN IF pos = 1 THEN 0 ELSE pos

extension(f) ==
  IF extension_pos(f) = 0 THEN <<>> ELSE SubSeq(f, extension_pos(f), Len(f))

stem(f) ==
  IF extension_pos(f) = 0 THEN f ELSE SubSeq(f, 1, extension_pos(f) - 1)

has_extension(f) == extension(f) # <<>>

(***************************************************************************)
(* SizeThresholds and categorize_size.                                     *)
(***************************************************************************)
Small == <<"s", "m", "a", "l", "l">>
Medium == <<"m", "e", "d", "i", "u", "m">>
Large == <<"l", "a", "r", "g", "e">>

categorize_size_strict(size, thresholds) ==
  IF size <= thresholds.small THEN Small
  ELSE IF size <= thresholds.medium THEN Medium
  ELSE Large

categorize_size(size, thresholds) ==
  IF size < thresholds.small THEN Small
  ELSE IF size < thresholds.medium THEN Medium
  ELSE Large

(***************************************************************************)
(* Time attributes and get_file_time.  A query q carries what the system   *)
(* calls answer for one file:                                              *)
(*   has_statx   the build has the statx path (HAS_STATX)                  *)
(*   statx_ok    the statx call returned 0                                 *)
(*   btime_mask  stx_mask has STATX_BTIME                                  *)
(*   btime       stx_btime                                                 *)
(*   mtime_ok    fs::last_write_time set no error                          *)
(*   ftime       the last-write time on the file clock                     *)
(*   file_now    file_time_type::clock::now()                              *)
(*   stat_ok     stat returned 0                                           *)
(*   atime       st_atime                                                  *)
(*   now         std::chrono::system_clock::now()                          *)
(***************************************************************************)
Creation == "Creation"
Modification == "Modification"
Access == "Access"
TimeAttribute == {Creation, Modification, Access}

\* [ok |-> the return value, creation_time |-> the out parameter]
get_creation_time(q) ==
  IF q.statx_ok /\ q.btime_mask
  THEN [ok |-> TRUE, creation_time |-> q.btime]
  ELSE [ok |-> FALSE, creation_time |-> 0]

modification_time(q) ==
  IF ~q.mtime_ok THEN q.now ELSE q.ftime - q.file_now + q.now

access_time(q) ==
  IF q.stat_ok THEN q.atime ELSE q.now

get_file_time_no_fallback(q, attr) ==
  CASE attr = Creation ->
         IF q.has_statx /\ get_creation_time(q).ok
         THEN get_creation_time(q).creation_time
         ELSE q.now
    [] attr = Modification -> modification_time(q)
    [] attr = Access -> access_time(q)
    [] OTHER -> modification_time(q)

get_file_time(q, attr) ==
  CASE attr = Creation ->
         IF q.has_statx /\ get_creation_time(q).ok
         THEN get_creation_time(q).creation_time
         ELSE modification_time(q)
    [] attr = Modification -> modification_time(q)
    [] attr = Access -> access_time(q)
    [] OTHER -> modification_time(q)

(***************************************************************************)
(* Calendar: localtime_r and put_time "%Y/%m/%d".                          *)
(***************************************************************************)
\* the civil date of a day number (proleptic Gregorian calendar)
localtime(days) ==
  LET z == days + 719468
      era == z \div 146097
      doe == z - era * 146097
      yoe == (doe - doe \div 1460 + doe \div 36524 - doe \div 146096) \div 365
      doy == doe - (365 * yoe + yoe \div 4 - yoe \div 100)
      mp == (5 * doy + 2) \div 153
      d == doy - (153 * mp + 2) \div 5 + 1
      m == IF mp < 10 THEN mp + 3 ELSE mp - 9
      y == yoe + era * 400 + (IF m <= 2 THEN 1 ELSE 0)
  IN [tm_year |-> y, tm_mon |-> m, tm_mday |-> d]

put_time(tm) ==
  to_string(tm.tm_year) \o <<Slash>> \o put_field(tm.tm_mon, 2)
    \o <<Slash>> \o put_field(tm.tm_mday, 2)

(***************************************************************************)
(* The file system under src_directory.  A regular file is an inode:       *)
(*   content     its bytes                                                 *)
(*   has_btime   the file system records a birth time for it               *)
(*   btime, mtime, atime   its timestamps                                  *)
(* A rename moves the inode whole, so it changes none of these.            *)
(***************************************************************************)
VARIABLES
  fs_files,     \* path -> inode, the regular files
  fs_dirs,      \* the directories (src_directory itself is <<>>)
  attr,         \* the time attribute of the configuration
  thresholds,   \* the size thresholds of the configuration
  dry_run,      \* the dry-run flag of the current run
  pc,           \* "idle", "loop", "create" or "done": where the current
                \* run stands ("create": before the create_directories call)
  files,        \* the vector collect_all_files returned
  idx,          \* position in files of the next file to process
  log,          \* what the current run reported, one entry per file
  injected,     \* positions of files whose I/O step was made to fail
  faults,       \* number of I/O failures so far
  start_files,  \* fs_files when the current run started
  start_dirs,   \* fs_dirs when the current run started
  history,      \* the completed runs
  probe         \* input and result of a function applied on its own

vars == <<fs_files, fs_dirs, attr, thresholds, dry_run, pc, files, idx, log,
          injected, faults, start_files, start_dirs, history, probe>>

NoExtension == <<"n", "o", "_", "e", "x", "t", "e", "n", "s", "i", "o", "n">>

\* what the metadata calls answer for an existing file on a Linux build
stat_file(inode) ==
  [has_statx |-> TRUE, statx_ok |-> TRUE, btime_mask |-> inode.has_btime,
   btime |-> inode.btime, mtime_ok |-> TRUE, ftime |-> inode.mtime - 74510,
   file_now |-> 20000 - 74510, stat_ok |-> TRUE, atime |-> inode.atime,
   now |-> 20000]

file_size(inode) == Len(inode.content)

\* the text "YYYY/MM/DD/size_category"
get_metadata_based_dir(inode, a, th) ==
  put_time(localtime(get_file_time(stat_file(inode), a)))
    \o <<Slash>> \o categorize_size(file_size(inode), th)

file_extension(file_path) ==
  IF has_extension(filename(file_path))
  THEN Tail(extension(filename(file_path)))
  ELSE NoExtension

\* src_directory / file_extension / metadata_subdir
target_directory(file_path, inode, a, th) ==
  path_join(path_join(<<>>, file_extension(file_path)),
            get_metadata_based_dir(inode, a, th))

target_file_path(file_path, inode, a, th) ==
  target_directory(file_path, inode, a, th) \o <<filename(file_path)>>

\* fs::exists
exists(ff, dd, p) == p \in DOMAIN ff \/ p \in dd

\* what an ifstream on p delivers: nothing when p is not a readable file
read_contents(ff, p) == IF p \in DOMAIN ff THEN ff[p].content ELSE <<>>

same_contents_never(a, b) == FALSE

same_contents(a, b) == a = b

suffixed_without_extension(target_file, counter) ==
  parent_path(target_file) \o
    <<stem(filename(target_file)) \o <<"_">> \o to_string(counter)>>

suffixed(target_file, counter) ==
  parent_path(target_file) \o
    <<stem(filename(target_file)) \o <<"_">> \o to_string(counter)
        \o extension(filename(target_file))>>

\* the do-while loop: the first of stem_1, stem_2, ... that does not exist
RECURSIVE unique_from(_, _, _, _)
unique_from(ff, dd, target_file, counter) ==
  IF exists(ff, dd, suffixed(target_file, counter))
  THEN unique_from(ff, dd, target_file, counter + 1)
  ELSE suffixed(target_file, counter)

unique_name_from_two(ff, dd, target_file) == unique_from(ff, dd, target_file, 2)

unique_name_taken(ff, dd, target_file) == target_file

unique_name(ff, dd, target_file) == unique_from(ff, dd, target_file, 1)

\* fs::rename on regular files: the inode leaves source and is at target
rename(ff, source, target) ==
  [p \in (DOMAIN ff \ {source}) \cup {target} |->
     IF p = target THEN ff[source] ELSE ff[p]]

(***************************************************************************)
(* What the run reports for one file: [src, kind, dst].                    *)
(***************************************************************************)
SkippedMissing == "SkippedMissing"
SkippedAlreadyCorrect == "SkippedAlreadyCorrect"
SkippedIdentical == "SkippedIdentical"
WouldMove == "WouldMove"
Moved == "Moved"
Failed == "Failed"

\* the I/O step of one file that is made to fail, if any
NoFault == "none"
MkdirFault == "create_directories"
RenameFault == "rename"
Faults == {NoFault, MkdirFault, RenameFault}

\* a path and the directories above it, below src_directory
ancestors(p) == {SubSeq(p, 1, k) : k \in 0..Len(p)}

\* lines 263-278 of move_file: report in a dry run, otherwise rename
commit_always(ff, source_file, final_target, dry, fault) ==
  IF fault = RenameFault
  THEN [files |-> ff, kind |-> Failed, dst |-> final_target, ret |-> FALSE,
        faulted |-> TRUE]
  ELSE [files |-> rename(ff, source_file, final_target), kind |-> Moved,
        dst |-> final_target, ret |-> TRUE, faulted |-> FALSE]

commit(ff, source_file, final_target, dry, fault) ==
  IF dry
  THEN [files |-> ff, kind |-> WouldMove, dst |-> final_target, ret |-> TRUE,
        faulted |-> FALSE]
  ELSE IF fault = RenameFault
  THEN [files |-> ff, kind |-> Failed, dst |-> final_target, ret |-> FALSE,
        faulted |-> TRUE]
  ELSE [files |-> rename(ff, source_file, final_target), kind |-> Moved,
        dst |-> final_target, ret |-> TRUE, faulted |-> FALSE]

move_file(ff, dd, source_file, target_file, dry, fault) ==
  IF source_file = target_file
  THEN [files |-> ff, kind |-> SkippedAlreadyCorrect, dst |-> target_file,
        ret |-> TRUE, faulted |-> FALSE]
  ELSE IF exists(ff, dd, target_file)
  THEN IF ~same_contents(read_contents(ff, source_file),
                         read_contents(ff, target_file))
       THEN commit(ff, source_file, unique_name(ff, dd, target_file), dry,
                   fault)
       ELSE [files |-> ff, kind |-> SkippedIdentical, dst |-> target_file,
             ret |-> TRUE, faulted |-> FALSE]
  ELSE commit(ff, source_file, target_file, dry, fault)

\* fs::create_directories(dir, ec): ok is its return value, true only when
\* the call itself made the directory; a failing call has made nothing
\* (partial = FALSE) or the whole chain above the directory
create_directories(ff, dd, dir, fault, partial) ==
  IF fault = MkdirFault
  THEN [ok |-> FALSE, faulted |-> TRUE,
        dirs |-> IF partial THEN dd \cup ancestors(parent_path(dir)) ELSE dd]
  ELSE IF exists(ff, dd, dir)
  THEN [ok |-> FALSE, dirs |-> dd, faulted |-> FALSE]
  ELSE [ok |-> TRUE, dirs |-> dd \cup ancestors(dir), faulted |-> FALSE]

\* lines 333-348: [ok, dirs, faulted]
ensure_target_directory(ff, dd, dir, dry, fault, partial) ==
  IF exists(ff, dd, dir) THEN [ok |-> TRUE, dirs |-> dd, faulted |-> FALSE]
  ELSE IF dry THEN [ok |-> TRUE, dirs |-> dd, faulted |-> FALSE]
  ELSE create_directories(ff, dd, dir, fault, partial)

\* the body of the loop over the collected files, for one file
process_file(ff, dd, file_path, a, th, dry, fault, partial) ==
  IF ~exists(ff, dd, file_path)
  THEN [files |-> ff, dirs |-> dd, faulted |-> FALSE,
        entry |-> [src |-> file_path, kind |-> SkippedMissing,
                   dst |-> file_path]]
  ELSE LET inode == ff[file_path]
           dir == target_directory(file_path, inode, a, th)
           target == target_file_path(file_path, inode, a, th)
           made_dir == ensure_target_directory(ff, dd, dir, dry, fault,
                                               partial)
       IN IF ~made_dir.ok
          THEN [files |-> ff, dirs |-> made_dir.dirs, faulted |-> TRUE,
                entry |-> [src |-> file_path, kind |-> Failed,
                           dst |-> target]]
          ELSE LET m == move_file(ff, made_dir.dirs, file_path, target, dry,
                                  fault)
               IN [files |-> m.files, dirs |-> made_dir.dirs,
                   faulted |-> m.faulted,
                   entry |-> [src |-> file_path, kind |-> m.kind,
                              dst |-> m.dst]]

\* lines 340-351 for one file: the loop body from the create_directories
\* call on, entered after fs::exists(target_directory) was false
create_and_move(ff, dd, file_path, a, th, fault, partial) ==
  LET inode == ff[file_path]
      dir == target_directory(file_path, inode, a, th)
      target == target_file_path(file_path, inode, a, th)
      made_dir == create_directories(ff, dd, dir, fault, partial)
  IN IF ~made_dir.ok
     THEN [files |-> ff, dirs |-> made_dir.dirs, faulted |-> made_dir.faulted,
           entry |-> [src |-> file_path, kind |-> Failed, dst |-> target]]
     ELSE LET m == move_file(ff, made_dir.dirs, file_path, target, FALSE,
                             fault)
          IN [files |-> m.files, dirs |-> made_dir.dirs,
              faulted |-> m.faulted,
              entry |-> [src |-> file_path, kind |-> m.kind, dst |-> m.dst]]

\* where the loop goes after a file
next_index_abort(i, n, entry) == IF entry.kind = Failed THEN n + 1 ELSE i + 1

next_index(i, n, entry) == i + 1

(***************************************************************************)
(* Initial trees.                                                          *)
(***************************************************************************)
Days == {19722, 19723}
DayA == CHOOSE d \in Days : \A e \in Days : d <= e
DayB == CHOOSE d \in Days : \A e \in Days : e <= d

\* no birth time recorded; written and read on DayA
TimesA == [has_btime |-> FALSE, btime |-> 0, mtime |-> DayA, atime |-> DayA]
\* born and read on DayB, written on DayA
TimesB == [has_btime |-> TRUE, btime |-> DayB, mtime |-> DayA, atime |-> DayB]

Inode(content, times) ==
  [content |-> content, has_btime |-> times.has_btime, btime |-> times.btime,
   mtime |-> times.mtime, atime |-> times.atime]

RunThresholds == [small |-> 1, medium |-> 2]

Name_a_t == <<"a", ".", "t">>
Name_a_1_t == <<"a", "_", "1", ".", "t">>
Name_a_T == <<"a", ".", "T">>
Name_a_dot == <<"a", ".">>
Name_a == <<"a">>

RootDir == <<>>
SubDir == <<<<"d">>>>
\* the directory the engine computes for a one-byte a.t of DayA
BucketDir ==
  target_directory(<<Name_a_t>>, Inode(<<0>>, TimesA), Modification,
                   RunThresholds)

Placements ==
  {[path |-> <<Name_a_t>>, inode |-> Inode(c, TimesA)] : c \in {<<0>>, <<1>>}}
  \cup {[path |-> SubDir \o <<Name_a_t>>, inode |-> Inode(<<0>>, TimesA)]}
  \cup {[path |-> BucketDir \o <<Name_a_t>>, inode |-> Inode(<<0>>, t)] :
          t \in {TimesA, TimesB}}
  \cup {[path |-> BucketDir \o <<Name_a_1_t>>, inode |-> Inode(<<0>>, TimesA)]}
  \cup {[path |-> <<n>>, inode |-> Inode(<<>>, TimesA)] :
          n \in {Name_a_T, Name_a_dot, Name_a}}

Trees ==
  {S \in SUBSET Placements :
     /\ Cardinality(S) \in 1..MaxFiles
     /\ \A x, y \in S : x.path = y.path => x = y}

tree_files(S) ==
  [p \in {x.path : x \in S} |-> (CHOOSE x \in S : x.path = p).inode]

tree_dirs(S) == UNION {ancestors(parent_path(x.path)) : x \in S}

NoProbe == [fn |-> "none"]

Init ==
  /\ \E S \in Trees : fs_files = tree_files(S) /\ fs_dirs = tree_dirs(S)
  /\ attr \in TimeAttribute
  /\ thresholds = RunThresholds
  /\ dry_run = FALSE
  /\ pc = "idle"
  /\ files = <<>>
  /\ idx = 1
  /\ log = <<>>
  /\ injected = {}
  /\ faults = 0
  /\ start_files = fs_files
  /\ start_dirs = fs_dirs
  /\ history = <<>>
  /\ probe = NoProbe

(***************************************************************************)
(* One run of the program: main parses the flags, collect_all_files makes  *)
(* the list, the loop processes it, the function returns.                  *)
(***************************************************************************)
\* the orders in which a directory walk can deliver a set of paths
orders(S) ==
  {f \in [1..Cardinality(S) -> S] : \A i, j \in DOMAIN f : f[i] = f[j] => i = j}

collect_all_files_twice(ff) == {o \o o : o \in orders(DOMAIN ff)}

collect_all_files(ff) == orders(DOMAIN ff)

StartRun ==
  /\ pc \in {"idle", "done"}
  /\ Len(history) < MaxRuns
  /\ dry_run' \in BOOLEAN
  /\ files' \in collect_all_files(fs_files)
  /\ idx' = 1
  /\ log' = <<>>
  /\ injected' = {}
  /\ start_files' = fs_files
  /\ start_dirs' = fs_dirs
  /\ pc' = "loop"
  /\ UNCHANGED <<fs_files, fs_dirs, attr, thresholds, faults, history, probe>>

\* the failures that can be forced on the next file: none, or while the
\* budget lasts a failing rename or a failing create_directories
fault_choices ==
  {[fault |-> NoFault, partial |-> FALSE]}
  \cup (IF faults < MaxFaults
        THEN {[fault |-> RenameFault, partial |-> FALSE]}
             \cup {[fault |-> MkdirFault, partial |-> b] : b \in BOOLEAN}
        ELSE {})

ProcessFile ==
  /\ pc = "loop"
  /\ idx <= Len(files)
  /\ \E c \in fault_choices :
       \E r \in {process_file(fs_files, fs_dirs, files[idx], attr, thresholds,
                              dry_run, c.fault, c.partial)} :
          /\ c.fault # NoFault => r.faulted
          /\ fs_files' = r.files
          /\ fs_dirs' = r.dirs
          /\ log' = Append(log, r.entry)
          /\ injected' = IF r.faulted THEN injected \cup {idx} ELSE injected
          /\ faults' = IF r.faulted THEN faults + 1 ELSE faults
          /\ idx' = next_index(idx, Len(files), r.entry)
  /\ UNCHANGED <<attr, thresholds, dry_run, pc, files, start_files,
                 start_dirs, history, probe>>

\* the function returns: the vector is gone, what the run did is recorded
FinishRun ==
  /\ pc = "loop"
  /\ idx > Len(files)
  /\ pc' = "done"
  /\ history' = Append(history,
                       [dry_run |-> dry_run,
                        collected |-> {files[i] : i \in 1..Len(files)},
                        entries |-> {log[i] : i \in 1..Len(log)},
                        start_files |-> start_files,
                        end_files |-> fs_files])
  /\ files' = <<>>
  /\ idx' = 1
  /\ log' = <<>>
  /\ injected' = {}
  /\ UNCHANGED <<fs_files, fs_dirs, attr, thresholds, dry_run, faults,
                 start_files, start_dirs, probe>>

Next == StartRun \/ ProcessFile \/ FinishRun

Spec == Init /\ [][Next]_vars

\* one run from an initial tree, dry or real, with forced failures
StartFirstRun == history = <<>> /\ StartRun

NextSingle == StartFirstRun \/ ProcessFile \/ FinishRun

SpecSingle == Init /\ [][NextSingle]_vars

\* real runs one after the other in which no I/O step fails
StartRealRun == StartRun /\ dry_run' = FALSE

ProcessFileUnforced == ProcessFile /\ faults' = faults

NextRepeat == StartRealRun \/ ProcessFileUnforced \/ FinishRun

SpecRepeat == Init /\ [][NextRepeat]_vars

(***************************************************************************)
(* One run beside another process that makes directories.  The loop body   *)
(* asks fs::exists(target_directory) at line 334 and calls                 *)
(* create_directories at line 340; the other process can act in between.   *)
(***************************************************************************)
\* lines 311-339 of a real run: the file exists, its target directory does
\* not, the loop stands before the create_directories call
CheckTargetDirectory ==
  /\ pc = "loop"
  /\ idx <= Len(files)
  /\ ~dry_run
  /\ exists(fs_files, fs_dirs, files[idx])
  /\ ~exists(fs_files, fs_dirs,
             target_directory(files[idx], fs_files[files[idx]], attr,
                              thresholds))
  /\ pc' = "create"
  /\ UNCHANGED <<fs_files, fs_dirs, attr, thresholds, dry_run, files, idx,
                 log, injected, faults, start_files, start_dirs, history,
                 probe>>

\* another process makes the directory the loop is about to create
OtherProcessCreatesDirectory ==
  /\ pc = "create"
  /\ LET dir == target_directory(files[idx], fs_files[files[idx]], attr,
                                 thresholds)
     IN /\ ~exists(fs_files, fs_dirs, dir)
        /\ fs_dirs' = fs_dirs \cup ancestors(dir)
  /\ UNCHANGED <<fs_files, attr, thresholds, dry_run, pc, files, idx, log,
                 injected, faults, start_files, start_dirs, history, probe>>

\* lines 340-351: create_directories, then move_file or continue
CreateAndMove ==
  /\ pc = "create"
  /\ \E r \in {create_and_move(fs_files, fs_dirs, files[idx], attr,
                                thresholds, NoFault, FALSE)} :
       /\ fs_files' = r.files
       /\ fs_dirs' = r.dirs
       /\ log' = Append(log, r.entry)
       /\ idx' = next_index(idx, Len(files), r.entry)
  /\ pc' = "loop"
  /\ UNCHANGED <<attr, thresholds, dry_run, files, injected, faults,
                 start_files, start_dirs, history, probe>>

NextRace ==
  \/ StartFirstRun
  \/ ProcessFile
  \/ CheckTargetDirectory
  \/ OtherProcessCreatesDirectory
  \/ CreateAndMove
  \/ FinishRun

SpecRace == Init /\ [][NextRace]_vars

(***************************************************************************)
(* categorize_size and get_file_time applied on their own, over a grid of  *)
(* inputs; the engine's variables stay as they are before any run.         *)
(***************************************************************************)
NoTree ==
  /\ fs_files = <<>>
  /\ fs_dirs = {RootDir}
  /\ attr = Creation
  /\ thresholds = RunThresholds
  /\ dry_run = FALSE
  /\ pc = "probe"
  /\ files = <<>>
  /\ idx = 1
  /\ log = <<>>
  /\ injected = {}
  /\ faults = 0
  /\ start_files = <<>>
  /\ start_dirs = {RootDir}
  /\ history = <<>>

engine_vars ==
  <<fs_files, fs_dirs, attr, thresholds, dry_run, pc, files, idx, log,
    injected, faults, start_files, start_dirs, history>>

InitClassify ==
  /\ NoTree
  /\ \E s \in 0..MaxSize, lo \in 0..MaxThreshold, hi \in 0..MaxThreshold :
       probe = [fn |-> "categorize_size", size |-> s,
                thresholds |-> [small |-> lo, medium |-> hi],
                done |-> FALSE, result |-> <<>>]

Classify ==
  /\ probe.fn = "categorize_size"
  /\ ~probe.done
  /\ probe' = [probe EXCEPT !.done = TRUE,
                 !.result = categorize_size(probe.size, probe.thresholds)]
  /\ UNCHANGED engine_vars

NextClassify == Classify

SpecClassify == InitClassify /\ [][NextClassify]_vars

\* the offsets between the system clock and the file clock that are tried
ClockOffsets == {0, 74510}
\* the instants the clock can show when a query fails
Nows == {19723, 20000}

Queries ==
  {[has_statx |-> hs, statx_ok |-> so, btime_mask |-> bm, btime |-> b,
    mtime_ok |-> mo, ftime |-> m - off, file_now |-> n - off,
    stat_ok |-> ao, atime |-> a, now |-> n, mtime |-> m] :
     hs \in BOOLEAN, so \in BOOLEAN, bm \in BOOLEAN, mo \in BOOLEAN,
     ao \in BOOLEAN, b \in Days, m \in Days, a \in Days, n \in Nows,
     off \in ClockOffsets}

InitTime ==
  /\ NoTree
  /\ \E q \in Queries, a \in TimeAttribute :
       probe = [fn |-> "get_file_time", q |-> q, attr |-> a, done |-> FALSE,
                result |-> 0]

Resolve ==
  /\ probe.fn = "get_file_time"
  /\ ~probe.done
  /\ probe' = [probe EXCEPT !.done = TRUE,
                 !.result = get_file_time(probe.q, probe.attr)]
  /\ UNCHANGED engine_vars

NextTime == Resolve

SpecTime == InitTime /\ [][NextTime]_vars

(***************************************************************************)
(* C10.  Size classification: for every size and every thresholds pair     *)
(* the category is small when size < small, otherwise medium when          *)
(* size < medium, otherwise large; so with 0 < small < medium the sizes    *)
(* small - 1, small, medium - 1 and medium fall into small, medium,        *)
(* medium and large; the result is always one of the three categories.     *)
(***************************************************************************)
SizeClassification ==
  (probe.fn = "categorize_size" /\ probe.done) =>
    LET s == probe.size
        lo == probe.thresholds.small
        hi == probe.thresholds.medium
        r == probe.result
    IN /\ r \in {Small, Medium, Large}
       /\ (r = Small) <=> (s < lo)
       /\ (r = Medium) <=> (s >= lo /\ s < hi)
       /\ (r = Large) <=> (s >= lo /\ s >= hi)
       /\ (0 < lo /\ lo < hi) =>
            /\ s = lo - 1 => r = Small
            /\ s = lo => r = Medium
            /\ s = hi - 1 => r = Medium
            /\ s = hi => r = Large

\* a file of exactly small bytes was classified medium
SizeClassificationWitness ==
  /\ probe.fn = "categorize_size"
  /\ probe.done
  /\ 0 < probe.thresholds.small
  /\ probe.thresholds.small < probe.thresholds.medium
  /\ probe.size = probe.thresholds.small
  /\ probe.result = Medium

(***************************************************************************)
(* C9.  Timestamp fallback chain: the resolver returns a timestamp for     *)
(* every attribute and every combination of failing queries.  Creation     *)
(* gives the birth time when the platform reports it and otherwise what    *)
(* Modification gives for the same file; Modification gives the            *)
(* last-write time, or the current time when that query fails; Access      *)
(* gives the last-access time, or the current time when that query fails.  *)
(***************************************************************************)
BirthTimeReported(q) == q.has_statx /\ q.statx_ok /\ q.btime_mask

ExpectedModification(q) == IF q.mtime_ok THEN q.mtime ELSE q.now

FallbackChain ==
  (probe.fn = "get_file_time" /\ probe.done) =>
    LET q == probe.q
        r == probe.result
    IN /\ r \in Int
       /\ probe.attr = Creation /\ BirthTimeReported(q) => r = q.btime
       /\ probe.attr = Creation /\ ~BirthTimeReported(q) =>
            r = ExpectedModification(q)
       /\ probe.attr = Modification => r = ExpectedModification(q)
       /\ probe.attr = Access => r = (IF q.stat_ok THEN q.atime ELSE q.now)

\* Creation was asked for, no birth time was reported and the last-write
\* time, different from the current time, was returned
FallbackChainWitness ==
  /\ probe.fn = "get_file_time"
  /\ probe.done
  /\ probe.attr = Creation
  /\ ~BirthTimeReported(probe.q)
  /\ probe.q.mtime_ok
  /\ probe.q.mtime # probe.q.now
  /\ probe.q.btime # probe.q.mtime
  /\ probe.result = probe.q.mtime

(***************************************************************************)
(* Claims about runs of the engine.                                        *)
(***************************************************************************)
NoFailure(h) == \A e \in h.entries : e.kind # Failed

\* run k and run k + 1 are both real runs without I/O failure
RepeatedRun(k) ==
  /\ k \in 1..(Len(history) - 1)
  /\ ~history[k].dry_run
  /\ ~history[k + 1].dry_run
  /\ NoFailure(history[k])
  /\ NoFailure(history[k + 1])

\* where a run left the file of an entry
PlaceAfter(e) == IF e.kind = Moved THEN e.dst ELSE e.src

(***************************************************************************)
(* C1.  Idempotence of the tree: after one complete real run without I/O   *)
(* failure, a second such run on the resulting tree renames nothing, so    *)
(* the tree after the second run is the tree after the first.              *)
(***************************************************************************)
Idempotence ==
  \A k \in 1..(Len(history) - 1) :
    RepeatedRun(k) =>
      /\ history[k + 1].end_files = history[k].end_files
      /\ \A e \in history[k + 1].entries : e.kind # Moved

(***************************************************************************)
(* C2.  Outcomes of a repeated run, as claimed: in a real run right after  *)
(* a completed real run every file ends as SkippedAlreadyCorrect.          *)
(***************************************************************************)
RepeatedRunAllAlreadyCorrect ==
  \A k \in 1..(Len(history) - 1) :
    RepeatedRun(k) =>
      \A e \in history[k + 1].entries : e.kind = SkippedAlreadyCorrect

(***************************************************************************)
(* C2, amended.  In a real run right after a completed real run, every     *)
(* file the first run moved or found already correct ends as               *)
(* SkippedAlreadyCorrect; a file the first run left in place as            *)
(* SkippedIdentical ends as SkippedIdentical or Moved; no file ends as     *)
(* SkippedMissing or Failed.                                               *)
(***************************************************************************)
RepeatedRunOutcomes ==
  \A k \in 1..(Len(history) - 1) :
    RepeatedRun(k) =>
      \A e2 \in history[k + 1].entries :
        /\ e2.kind \notin {SkippedMissing, Failed, WouldMove}
        /\ \E e1 \in history[k].entries : PlaceAfter(e1) = e2.src
        /\ \A e1 \in history[k].entries :
             PlaceAfter(e1) = e2.src =>
               /\ e1.kind \in {Moved, SkippedAlreadyCorrect} =>
                    e2.kind = SkippedAlreadyCorrect
               /\ e1.kind = SkippedIdentical =>
                    e2.kind \in {SkippedIdentical, Moved}

\* a repeated run in which one file was moved and then found already
\* correct and another was twice left in place as identical
RepeatedRunOutcomesWitness ==
  \E k \in 1..(Len(history) - 1) :
    /\ RepeatedRun(k)
    /\ \E e1, f1 \in history[k].entries, e2, f2 \in history[k + 1].entries :
         /\ e1.kind = Moved /\ e2.src = e1.dst
         /\ e2.kind = SkippedAlreadyCorrect
         /\ f1.kind = SkippedIdentical /\ f2.src = f1.src
         /\ f2.kind = SkippedIdentical

(***************************************************************************)
(* C3.  Dry-run changes nothing: in every state of a dry run the files,    *)
(* their contents and the directories are those of the start of the run.   *)
(***************************************************************************)
DryRunChangesNothing ==
  /\ (pc = "loop" /\ dry_run) =>
       fs_files = start_files /\ fs_dirs = start_dirs
  /\ \A k \in 1..Len(history) :
       history[k].dry_run => history[k].end_files = history[k].start_files

\* a dry run has reported a move into a directory that does not exist
DryRunChangesNothingWitness ==
  /\ pc = "loop"
  /\ dry_run
  /\ \E i \in 1..Len(log) :
       /\ log[i].kind = WouldMove
       /\ parent_path(log[i].dst) \notin fs_dirs

(***************************************************************************)
(* C4.  Dry-run predicts the real run: a dry run and the real run that     *)
(* follows it on the same tree report, file by file, the same action:      *)
(* the same move to the same final target, or the same skip.               *)
(***************************************************************************)
Action(e) ==
  IF e.kind \in {WouldMove, Moved} THEN <<"move", e.dst>> ELSE <<e.kind>>

DryRunPredicts ==
  \A k \in 1..(Len(history) - 1) :
    (/\ history[k].dry_run
     /\ ~history[k + 1].dry_run
     /\ NoFailure(history[k + 1])) =>
      \A e1 \in history[k].entries, e2 \in history[k + 1].entries :
        e1.src = e2.src => Action(e1) = Action(e2)

(***************************************************************************)
(* Claims about the step that processes one file.                          *)
(***************************************************************************)
\* the file the loop is at and its candidate target path
CurrentFile == files[idx]
CurrentTarget ==
  target_file_path(CurrentFile, fs_files[CurrentFile], attr, thresholds)

\* the loop is at an existing file whose candidate target is another,
\* existing file
Collision ==
  /\ pc = "loop"
  /\ idx <= Len(files)
  /\ CurrentFile \in DOMAIN fs_files
  /\ CurrentTarget \in DOMAIN fs_files
  /\ CurrentTarget # CurrentFile

\* the step just taken processed a file; its report is the last of log'
Processed == log' # log
Reported == log'[Len(log')]

(***************************************************************************)
(* C5.  Collision dedup: when the candidate target exists, is another      *)
(* path than the source and holds the same bytes, the file is reported     *)
(* SkippedIdentical and the step changes no file and no directory: the     *)
(* source stays, the target is untouched, no suffixed copy appears.        *)
(***************************************************************************)
CollisionDedup ==
  [][(/\ Collision
      /\ fs_files[CurrentTarget].content = fs_files[CurrentFile].content
      /\ Processed) =>
       /\ Reported = [src |-> CurrentFile, kind |-> SkippedIdentical,
                      dst |-> CurrentTarget]
       /\ fs_files' = fs_files
       /\ fs_dirs' = fs_dirs]_vars

\* a real run has left a file in place beside an identical file at its
\* target
CollisionDedupWitness ==
  /\ pc = "loop"
  /\ ~dry_run
  /\ \E i \in 1..Len(log) :
       /\ log[i].kind = SkippedIdentical
       /\ log[i].src # log[i].dst
       /\ {log[i].src, log[i].dst} \subseteq DOMAIN fs_files
       /\ fs_files[log[i].src].content = fs_files[log[i].dst].content

(***************************************************************************)
(* C6.  Collision disambiguation: in a real run, when the candidate        *)
(* target exists, is another path than the source and holds other bytes,   *)
(* and the rename does not fail, the file is renamed into the target       *)
(* directory as stem_N.ext with N the smallest integer >= 1 whose name     *)
(* does not exist and .ext the file's own extension; every other file,     *)
(* the target and the stem_k.ext among them, keeps its path and content.   *)
(***************************************************************************)
SuffixedPath(target, n) ==
  parent_path(target) \o
    <<stem(filename(target)) \o <<"_">> \o to_string(n)
        \o extension(filename(target))>>

SmallestFreeSuffix(target) ==
  CHOOSE n \in 1..(Cardinality(DOMAIN fs_files) + 1) :
    /\ ~exists(fs_files, fs_dirs, SuffixedPath(target, n))
    /\ \A m \in 1..(n - 1) : exists(fs_files, fs_dirs, SuffixedPath(target, m))

CollisionDisambiguation ==
  [][(/\ Collision
      /\ ~dry_run
      /\ fs_files[CurrentTarget].content # fs_files[CurrentFile].content
      /\ Processed
      /\ Reported.kind # Failed) =>
       LET dst == SuffixedPath(CurrentTarget, SmallestFreeSuffix(CurrentTarget))
       IN /\ Reported = [src |-> CurrentFile, kind |-> Moved, dst |-> dst]
          /\ parent_path(dst) = parent_path(CurrentTarget)
          /\ extension(filename(dst)) = extension(filename(CurrentFile))
          /\ DOMAIN fs_files' = (DOMAIN fs_files \ {CurrentFile}) \cup {dst}
          /\ fs_files'[dst] = fs_files[CurrentFile]
          /\ \A p \in DOMAIN fs_files \ {CurrentFile} :
               fs_files'[p] = fs_files[p]]_vars

\* a file was renamed to a_2.t: a.t and a_1.t were both taken
CollisionDisambiguationWitness ==
  /\ pc = "loop"
  /\ ~dry_run
  /\ \E i \in 1..Len(log) :
       /\ log[i].kind = Moved
       /\ filename(log[i].src) = Name_a_t
       /\ filename(log[i].dst) = <<"a", "_", "2", ".", "t">>
       /\ parent_path(log[i].dst) \o <<Name_a_t>> \in DOMAIN fs_files
       /\ parent_path(log[i].dst) \o <<Name_a_1_t>> \in DOMAIN fs_files

(***************************************************************************)
(* C7.  Partial-failure containment: a file whose directory creation or    *)
(* rename fails is reported Failed and stays at its source path with its   *)
(* content; the loop goes on to the next file; exactly the files whose     *)
(* own I/O step failed are reported Failed; every collected file gets its  *)
(* report and the run reaches the end of the list.                         *)
(***************************************************************************)
ReportsSoFar ==
  pc = "loop" =>
    /\ idx <= Len(files) + 1
    /\ Len(log) = idx - 1
    /\ \A i \in 1..Len(log) :
         /\ log[i].src = files[i]
         /\ log[i].kind = Failed <=> i \in injected
         /\ i \in injected =>
              /\ files[i] \in DOMAIN fs_files
              /\ fs_files[files[i]] = start_files[files[i]]

EveryFileReported ==
  \A k \in 1..Len(history) :
    {e.src : e \in history[k].entries} = history[k].collected

\* the loop can always take its next file: the step without a forced
\* failure has a result for it
NextFileCanBeProcessed ==
  (pc = "loop" /\ idx <= Len(files)) =>
    LET r == process_file(fs_files, fs_dirs, files[idx], attr, thresholds,
                          dry_run, NoFault, FALSE)
    IN r.entry.src = files[idx] /\ ~r.faulted

UpperCase ==
  <<"A", "B", "C", "D", "E", "F", "G", "H", "I", "J", "K", "L", "M", "N",
    "O", "P", "Q", "R", "S", "T", "U", "V", "W", "X", "Y", "Z">>
LowerCase ==
  <<"a", "b", "c", "d", "e", "f", "g", "h", "i", "j", "k", "l", "m", "n",
    "o", "p", "q", "r", "s", "t", "u", "v", "w", "x", "y", "z">>

IsUpper(c) == \E k \in 1..Len(UpperCase) : UpperCase[k] = c
ToLower(c) ==
  IF IsUpper(c)
  THEN LowerCase[CHOOSE k \in 1..Len(UpperCase) : UpperCase[k] = c]
  ELSE c

ExpectedExtensionSegment(name) ==
  IF Len(extension(name)) <= 1 THEN NoExtension
  ELSE [k \in 1..(Len(extension(name)) - 1) |-> ToLower(extension(name)[k + 1])]

TargetLayout ==
  \A i \in 1..Len(log) :
    log[i].kind = Moved =>
      LET dst == log[i].dst
          name == filename(log[i].src)
          inode == start_files[log[i].src]
          tm == localtime(get_file_time(stat_file(inode), attr))
      IN /\ Len(dst) = 6
         /\ dst[1] = ExpectedExtensionSegment(name)
         /\ dst[1] # <<>>
         /\ \A k \in 1..Len(dst[1]) : ~IsUpper(dst[1][k])
         /\ dst[2] = to_string(tm.tm_year)
         /\ dst[3] = put_field(tm.tm_mon, 2)
         /\ dst[4] = put_field(tm.tm_mday, 2)
         /\ dst[5] = categorize_size(file_size(inode), thresholds)
         /\ \/ dst[6] = name
            \/ \E n \in 1..(Cardinality(DOMAIN fs_files) + 1) :
                 dst[6] = stem(name) \o <<"_">> \o to_string(n)
                            \o extension(name)

(***************************************************************************)
(* C11.  No content is lost or overwritten: in every state the multiset    *)
(* of file contents under src_directory is that of the initial tree and    *)
(* the number of regular files is unchanged; every rename has a            *)
(* destination at which nothing exists at the moment of the rename, moves  *)
(* one file whole and leaves every other file at its path with its         *)
(* content; nothing but a rename changes the files.                        *)
(***************************************************************************)
\* the step just taken is the loop's step for the file it was at
FileStep == pc = "loop" /\ idx <= Len(files) /\ Len(log') = Len(log) + 1

\* the files before the first run
InitialFiles == IF history = <<>> THEN start_files ELSE history[1].start_files

\* the number of files of ff that hold the bytes c
copies(ff, c) == Cardinality({p \in DOMAIN ff : ff[p].content = c})

SameContentMultiset(ff, gg) ==
  /\ {ff[p].content : p \in DOMAIN ff} = {gg[p].content : p \in DOMAIN gg}
  /\ \A c \in {ff[p].content : p \in DOMAIN ff} : copies(ff, c) = copies(gg, c)

NoContentLost ==
  [][/\ SameContentMultiset(fs_files', InitialFiles')
     /\ Cardinality(DOMAIN fs_files') = Cardinality(DOMAIN fs_files)
     /\ fs_files' # fs_files => (FileStep /\ Reported.kind = Moved)
     /\ (FileStep /\ Reported.kind = Moved) =>
          /\ Reported.src = CurrentFile
          /\ Reported.src \in DOMAIN fs_files
          /\ Reported.dst # Reported.src
          /\ Reported.dst \notin DOMAIN fs_files
          /\ Reported.dst \notin fs_dirs
          /\ DOMAIN fs_files' =
               (DOMAIN fs_files \ {Reported.src}) \cup {Reported.dst}
          /\ fs_files'[Reported.dst] = fs_files[Reported.src]
          /\ \A p \in DOMAIN fs_files \ {Reported.src} :
               fs_files'[p] = fs_files[p]]_vars

\* a real run has renamed a file beside the file of other content that
\* holds its target, and both contents are still there
NoContentLostWitness ==
  /\ pc = "loop"
  /\ ~dry_run
  /\ \E i \in 1..Len(log) :
       LET target == parent_path(log[i].dst) \o <<filename(log[i].src)>>
       IN /\ log[i].kind = Moved
          /\ log[i].dst # target
          /\ {log[i].dst, target} \subseteq DOMAIN fs_files
          /\ fs_files[log[i].dst].content # fs_files[target].content
          /\ fs_files[log[i].dst] = start_files[log[i].src]
          /\ fs_files[target] = start_files[target]

(***************************************************************************)
(* C12.  Snapshot then act: the step that makes the list lists every       *)
(* regular file once and changes no file and no directory, so the list is  *)
(* complete before the run's first directory creation or rename; every     *)
(* later change of the tree is a step of the loop; the loop takes the      *)
(* paths of the list one by one in the list's order, each once, and no     *)
(* step of the loop changes the list; the path a move gives a file is not  *)
(* a path the loop still has to take, so a moved file is not processed a   *)
(* second time in the run.                                                 *)
(***************************************************************************)
SnapshotThenAct ==
  [][/\ (pc # "loop" /\ pc' = "loop") =>
          /\ {files'[i] : i \in 1..Len(files')} = DOMAIN fs_files
          /\ Len(files') = Cardinality(DOMAIN fs_files)
          /\ idx' = 1
          /\ log' = <<>>
          /\ fs_files' = fs_files
          /\ fs_dirs' = fs_dirs
     /\ (fs_files' # fs_files \/ fs_dirs' # fs_dirs) =>
          (FileStep /\ files # <<>>)
     /\ (pc = "loop" /\ pc' = "loop") =>
          /\ FileStep
          /\ files' = files
          /\ idx' = idx + 1
          /\ log' = Append(log, Reported)
          /\ Reported.src = files[idx]
     /\ (pc = "loop" /\ pc' # "loop") =>
          /\ idx = Len(files) + 1
          /\ Len(log) = Len(files)
          /\ fs_files' = fs_files
          /\ fs_dirs' = fs_dirs
     /\ pc' = "loop" =>
          /\ Len(log') = idx' - 1
          /\ \A i, j \in 1..Len(files') : files'[i] = files'[j] => i = j
          /\ \A i \in 1..Len(log') :
               /\ log'[i].src = files'[i]
               /\ log'[i].kind = Moved =>
                    \A j \in (i + 1)..Len(files') : files'[j] # log'[i].dst]_vars

\* the loop is through its list; one of its moves put a file at a path of
\* the list, which the loop had taken before and found another file at
SnapshotThenActWitness ==
  /\ pc = "loop"
  /\ idx = Len(files) + 1
  /\ \E i, j \in 1..Len(log) :
       /\ j < i
       /\ log[j].kind = Moved
       /\ log[i].kind = Moved
       /\ log[i].dst = files[j]
       /\ log[i].dst \in DOMAIN fs_files
       /\ log[j].dst \in DOMAIN fs_files

(***************************************************************************)
(* C13.  Directory creation tolerates "already exists": when the target    *)
(* directory exists at the moment its creation is attempted, another       *)
(* process having made it since the loop's existence check, the step       *)
(* counts as success: the file goes on to collision resolution and commit  *)
(* and is reported as move_file decides, not Failed and not skipped.       *)
(* With the directory there when fs::exists is asked, the file is reported *)
(* Failed only if its own rename failed.                                   *)
(***************************************************************************)
CurrentDirectory ==
  target_directory(CurrentFile, fs_files[CurrentFile], attr, thresholds)

AlreadyExistsTolerated ==
  [][/\ (/\ pc = "create"
         /\ pc' = "loop"
         /\ exists(fs_files, fs_dirs, CurrentDirectory)) =>
          LET m == move_file(fs_files, fs_dirs, CurrentFile, CurrentTarget,
                             FALSE, NoFault)
          IN /\ Reported.kind # Failed
             /\ Reported = [src |-> CurrentFile, kind |-> m.kind,
                            dst |-> m.dst]
             /\ fs_files' = m.files
     /\ (/\ FileStep
         /\ CurrentFile \in DOMAIN fs_files
         /\ exists(fs_files, fs_dirs, CurrentDirectory)
         /\ faults' = faults) =>
          Reported.kind \in {SkippedAlreadyCorrect, SkippedIdentical,
                             WouldMove, Moved}]_vars

====
